---- MODULE Spec2Model ----
(***************************************************************************)
(* Model of the span extraction pipeline of pdf_loader.py:                 *)
(* PDFTextExtractor.extract_text_spans and its helpers.                    *)
(*                                                                         *)
(* Conventions.                                                            *)
(*  - A Python str is a sequence of one-character strings.                 *)
(*  - A font size is an integer number of tenths of a point (6.0 -> 60).   *)
(*  - Coordinates are integers.                                            *)
(*  - The document library (fitz) is the environment: a file either does   *)
(*    not exist, exists but does not parse, or opens with a sequence of    *)
(*    pages; a page either loads or not; its text dictionary either can    *)
(*    be read or not.                                                      *)
(***************************************************************************)
EXTENDS Integers, Sequences, FiniteSets, TLC

\* ------------------------------------------------------------------ bounds
MaxPages == 3
MaxTokens == 4
MaxFilterLen == 3
ColorSpan == 40
FlagSpan == 35

\* ------------------------------------------------------ program constants
\* PDFTextExtractor.__init__ defaults, in tenths of a point.
min_font_size == 60
max_font_size == 720

\* ------------------------------------------------------------ str helpers
Range(s) == {s[i] : i \in 1..Len(s)}

SeqsUpTo(S, n) == UNION {[1..k -> S] : k \in 0..n}

UpperChars == <<"A","B","C","D","E","F","G","H","I","J","K","L","M",
                "N","O","P","Q","R","S","T","U","V","W","X","Y","Z">>
LowerChars == <<"a","b","c","d","e","f","g","h","i","j","k","l","m",
                "n","o","p","q","r","s","t","u","v","w","x","y","z">>
DigitChars == <<"0","1","2","3","4","5","6","7","8","9">>
SpaceChars == {" ", "\t", "\n"}

\* str.isalnum for one character
isalnum(c) == c \in Range(UpperChars) \cup Range(LowerChars) \cup Range(DigitChars)

\* str.lower for one character
LowerChar(c) ==
    IF \E i \in 1..Len(UpperChars) : UpperChars[i] = c
    THEN LowerChars[CHOOSE i \in 1..Len(UpperChars) : UpperChars[i] = c]
    ELSE c

\* str.lower
lower(s) == [i \in 1..Len(s) |-> LowerChar(s[i])]

\* str.isspace: non-empty and every character is whitespace
isspace(s) == Len(s) > 0 /\ \A i \in 1..Len(s) : s[i] \in SpaceChars

\* str.strip: drop leading and trailing whitespace
strip(s) ==
    LET inked == {i \in 1..Len(s) : s[i] \notin SpaceChars}
    IN  IF inked = {} THEN <<>>
        ELSE LET lo == CHOOSE i \in inked : \A j \in inked : i <= j
                 hi == CHOOSE i \in inked : \A j \in inked : j <= i
             IN  SubSeq(s, lo, hi)

\* the Python operator "needle in hay" on two strs
contains(hay, needle) ==
    \E i \in 0..(Len(hay) - Len(needle)) :
        SubSeq(hay, i + 1, i + Len(needle)) = needle

\* ----------------------------------------------------------- _parse_color
HexChars == <<"0","1","2","3","4","5","6","7","8","9","a","b","c","d","e","f">>

RECURSIVE HexDigits(_)
\* lowercase hexadecimal digits of a natural number, no padding
HexDigits(n) ==
    IF n < 16 THEN <<HexChars[n + 1]>>
    ELSE HexDigits(n \div 16) \o <<HexChars[(n % 16) + 1]>>

Zeros(k) == [i \in 1..k |-> "0"]

\* format(color, "06x"): sign, then zero padding up to a total width of 6
\* (the sign counts in the width), then the digits of the magnitude; the
\* width is a minimum, never a truncation.
Format06x(color) ==
    LET sign == IF color < 0 THEN <<"-">> ELSE <<>>
        mag  == IF color < 0 THEN 0 - color ELSE color
        digs == HexDigits(mag)
        pad  == 6 - Len(sign) - Len(digs)
    IN  sign \o Zeros(IF pad > 0 THEN pad ELSE 0) \o digs

Black == <<"b","l","a","c","k">>

\* PDFTextExtractor._parse_color on an int colour; the except branch
\* (ValueError, TypeError) is not reachable for ints.
_parse_color(color) ==
    IF color = 0 THEN Black ELSE <<"#">> \o Format06x(color)

\* ------------------------------------------------------- _parse_font_info
\* flags & bit for a power of two bit, two's complement as Python ints
BitAnd(flags, bit) == IF (flags \div bit) % 2 = 1 THEN bit ELSE 0

\* _parse_font_info matching the font name without lowercasing it
_parse_font_info_casesensitive(font_name, flags) ==
    [font_name |-> font_name,
     is_bold   |-> (BitAnd(flags, 16) # 0) \/ contains(font_name, <<"b","o","l","d">>),
     is_italic |-> (BitAnd(flags, 2) # 0) \/ contains(font_name, <<"i","t","a","l","i","c">>),
     flags     |-> flags]

\* PDFTextExtractor._parse_font_info
_parse_font_info(font_name, flags) ==
    [font_name |-> font_name,
     is_bold   |-> (BitAnd(flags, 16) # 0) \/ contains(lower(font_name), <<"b","o","l","d">>),
     is_italic |-> (BitAnd(flags, 2) # 0)
                     \/ contains(lower(font_name), <<"i","t","a","l","i","c">>),
     flags     |-> flags]

\* ---------------------------------------------------------------- SpanInfo
\* SpanInfo.__post_init__: TRUE when construction raises ValueError
SpanInfoRaises(bbox, size, page) ==
    \/ page < 1
    \/ size <= 0
    \/ Len(bbox) # 4

\* the frozen dataclass SpanInfo
SpanInfo(text, bbox, size, page, font, is_bold, is_italic, color) ==
    [text |-> text, bbox |-> bbox, size |-> size, page |-> page, font |-> font,
     is_bold |-> is_bold, is_italic |-> is_italic, color |-> color]

\* ---------------------------------------------------- _extract_page_spans
\* A raw span of page.get_text("dict") is a record
\*   [text, bbox, size, font, flags, color];
\* a line is [has_spans, spans]; a block is [has_lines, lines] (an image
\* block has no "lines" key); a page is [readable, blocks], readable FALSE
\* when get_text raises.
\* Each walk returns [spans |-> the list built so far, raised |-> whether an
\* exception left the loop]; the exception unwinds all three loops up to the
\* single except clause of _extract_page_spans.

RECURSIVE WalkSpans(_, _, _, _)
\* for span in line["spans"]
WalkSpans(raw, i, acc, page_num) ==
    IF i > Len(raw) THEN [spans |-> acc, raised |-> FALSE]
    ELSE LET span == raw[i]
             text == strip(span.text)
         IN  IF text = <<>> \/ isspace(text)
             THEN WalkSpans(raw, i + 1, acc, page_num)
             ELSE LET font_info == _parse_font_info(span.font, span.flags)
                      color == _parse_color(span.color)
                  IN  IF SpanInfoRaises(span.bbox, span.size, page_num)
                      THEN [spans |-> acc, raised |-> TRUE]
                      ELSE WalkSpans(raw, i + 1,
                               Append(acc, SpanInfo(text, span.bbox, span.size, page_num,
                                                    font_info.font_name, font_info.is_bold,
                                                    font_info.is_italic, color)),
                               page_num)

RECURSIVE WalkLines(_, _, _, _)
\* for line in block["lines"]; line["spans"] raises KeyError on a line
\* without spans
WalkLines(lines, i, acc, page_num) ==
    IF i > Len(lines) THEN [spans |-> acc, raised |-> FALSE]
    ELSE IF ~lines[i].has_spans THEN [spans |-> acc, raised |-> TRUE]
    ELSE LET r == WalkSpans(lines[i].spans, 1, acc, page_num)
         IN  IF r.raised THEN r ELSE WalkLines(lines, i + 1, r.spans, page_num)

RECURSIVE WalkBlocks(_, _, _, _)
\* for block in blocks; blocks without "lines" are skipped
WalkBlocks(blocks, i, acc, page_num) ==
    IF i > Len(blocks) THEN [spans |-> acc, raised |-> FALSE]
    ELSE IF ~blocks[i].has_lines THEN WalkBlocks(blocks, i + 1, acc, page_num)
    ELSE LET r == WalkLines(blocks[i].lines, 1, acc, page_num)
         IN  IF r.raised THEN r ELSE WalkBlocks(blocks, i + 1, r.spans, page_num)

\* the try block of _extract_page_spans
PageWalk(page, page_num) ==
    IF ~page.readable THEN [spans |-> <<>>, raised |-> TRUE]
    ELSE WalkBlocks(page.blocks, 1, <<>>, page_num)

\* _extract_page_spans whose except clause returns an empty list
_extract_page_spans_discard(page, page_num) ==
    IF PageWalk(page, page_num).raised THEN <<>> ELSE PageWalk(page, page_num).spans

\* PDFTextExtractor._extract_page_spans: the except clause logs a warning
\* and falls through to "return spans"
_extract_page_spans(page, page_num) == PageWalk(page, page_num).spans

\* ----------------------------------------------------------- _filter_spans
\* number of alphanumeric characters of a str
alphanumeric_count(text) == Cardinality({i \in 1..Len(text) : isalnum(text[i])})

\* _is_mostly_special_chars without the exemption of texts shorter than 3
_is_mostly_special_chars_noexempt(text) ==
    10 * alphanumeric_count(text) < 3 * Len(text)

\* PDFTextExtractor._is_mostly_special_chars.  The float comparison
\* alphanumeric_count / len(text) < 0.3 is the exact comparison
\* 10 * count < 3 * len for every length a str can have.
_is_mostly_special_chars(text) ==
    IF Len(text) < 3 THEN FALSE
    ELSE 10 * alphanumeric_count(text) < 3 * Len(text)

\* PDFTextExtractor._is_valid_bbox
_is_valid_bbox(bbox) ==
    LET x1 == bbox[1]
        y1 == bbox[2]
        x2 == bbox[3]
        y2 == bbox[4]
    IN  IF x2 <= x1 \/ y2 <= y1 THEN FALSE
        ELSE IF \E k \in 1..Len(bbox) : bbox[k] < 0 \/ bbox[k] > 10000 THEN FALSE
        ELSE TRUE

RECURSIVE FilterLoop(_, _, _)
\* the for loop of _filter_spans, one "continue" per rejection test
FilterLoop(spans, i, filtered) ==
    IF i > Len(spans) THEN filtered
    ELSE LET span == spans[i]
         IN  IF ~(min_font_size <= span.size /\ span.size <= max_font_size)
             THEN FilterLoop(spans, i + 1, filtered)
             ELSE IF Len(span.text) < 2
             THEN FilterLoop(spans, i + 1, filtered)
             ELSE IF _is_mostly_special_chars(span.text)
             THEN FilterLoop(spans, i + 1, filtered)
             ELSE IF ~_is_valid_bbox(span.bbox)
             THEN FilterLoop(spans, i + 1, filtered)
             ELSE FilterLoop(spans, i + 1, Append(filtered, span))

RECURSIVE RemoveLoop(_, _)
\* a filter that removes rejected spans from the list it is iterating over:
\* after a removal the iterator steps over the element that moved up
RemoveLoop(spans, i) ==
    IF i > Len(spans) THEN spans
    ELSE LET span == spans[i]
             reject ==
                 \/ ~(min_font_size <= span.size /\ span.size <= max_font_size)
                 \/ Len(span.text) < 2
                 \/ _is_mostly_special_chars(span.text)
                 \/ ~_is_valid_bbox(span.bbox)
         IN  IF reject
             THEN RemoveLoop(SubSeq(spans, 1, i - 1) \o SubSeq(spans, i + 1, Len(spans)), i + 1)
             ELSE RemoveLoop(spans, i + 1)

_filter_spans_removing(spans) == RemoveLoop(spans, 1)

\* PDFTextExtractor._filter_spans
_filter_spans(spans) == FilterLoop(spans, 1, <<>>)

\* ------------------------------------------------------------------ inputs
Introduction == <<"I","n","t","r","o","d","u","c","t","i","o","n">>
PaddedHi == <<" ","H","i"," ">>
Bangs == <<"a","!","!","!","!","!","!","!">>
Blank == <<" "," ">>
Helvetica == <<"H","e","l","v","e","t","i","c","a">>
ArialBoldItalic == <<"A","r","i","a","l","-","B","o","l","d","I","t","a","l","i","c">>

RawSpan(text, bbox, size, font, flags, color) ==
    [text |-> text, bbox |-> bbox, size |-> size, font |-> font,
     flags |-> flags, color |-> color]

\* a bold 14pt heading, kept by the filter
RunIntro == RawSpan(Introduction, <<10, 10, 100, 25>>, 140, Helvetica, 16, 0)
\* a 12pt coloured run with surrounding whitespace, kept by the filter
RunHi == RawSpan(PaddedHi, <<0, 0, 100, 20>>, 120, ArialBoldItalic, 0, 16711840)
\* a valid record the filter rejects (alphanumeric fraction 1/8)
RunBangs == RawSpan(Bangs, <<0, 0, 100, 20>>, 120, Helvetica, 0, 0)
\* size 0: SpanInfo raises ValueError
RunZero == RawSpan(Introduction, <<10, 10, 100, 25>>, 0, Helvetica, 0, 0)
\* a three-coordinate bbox: SpanInfo raises ValueError
RunBox3 == RawSpan(Introduction, <<10, 10, 100>>, 140, Helvetica, 0, 0)
\* whitespace only: skipped
RunBlank == RawSpan(Blank, <<0, 0, 100, 20>>, 120, Helvetica, 0, 0)

Line(raw) == [has_spans |-> TRUE, spans |-> raw]
BadLine == [has_spans |-> FALSE, spans |-> <<>>]
TextBlock(lines) == [has_lines |-> TRUE, lines |-> lines]
ImageBlock == [has_lines |-> FALSE, lines |-> <<>>]
Page(blocks) == [readable |-> TRUE, blocks |-> blocks]
UnreadablePage == [readable |-> FALSE, blocks |-> <<>>]

\* the pages a document of the extraction runs is made of
DocPages ==
    { UnreadablePage,
      Page(<<TextBlock(<<Line(<<RunIntro>>)>>)>>),
      Page(<<ImageBlock, TextBlock(<<Line(<<RunHi, RunBangs>>), Line(<<RunIntro>>)>>)>>),
      Page(<<TextBlock(<<Line(<<RunIntro>>), BadLine, Line(<<RunHi>>)>>)>>),
      Page(<<TextBlock(<<Line(<<RunHi, RunZero>>), Line(<<RunIntro>>)>>)>>),
      Page(<<TextBlock(<<Line(<<RunBox3>>)>>), TextBlock(<<Line(<<RunBlank, RunHi>>)>>)>>) }

\* an entry of the page iterator: the page, or a page that fails to load
DocEntries == [loads : {TRUE}, page : DocPages] \cup {[loads |-> FALSE, page |-> UnreadablePage]}

\* What fitz.open(pdf_path) finds at the path, and the exception it raises.
\* For a path that names no file the library raises, depending on its
\* version, the builtin FileNotFoundError or its own exception class of that
\* name, which derives from RuntimeError and which "except FileNotFoundError"
\* (the builtin; the module does not name fitz.FileNotFoundError) does not
\* match.  For a file it cannot parse it raises fitz.FileDataError.
File(exists, parses, open_error, pages) ==
    [exists |-> exists, parses |-> parses, open_error |-> open_error, pages |-> pages]
MissingFile == File(FALSE, FALSE, "FileNotFoundError", <<>>)
MissingFileOwnError == File(FALSE, FALSE, "fitz.FileNotFoundError", <<>>)
CorruptFile == File(TRUE, FALSE, "fitz.FileDataError", <<>>)
Files ==
    {MissingFile, MissingFileOwnError, CorruptFile}
        \cup {File(TRUE, TRUE, "none", d) : d \in SeqsUpTo(DocEntries, MaxPages)}

\* --------------------------------------------------------------- variables
VARIABLES
    pc,            \* position of the running call
    pdf,           \* the file at pdf_path
    handle,        \* the fitz document: "none", "open" or "closed"
    page_num,      \* pages consumed from the iterator
    spans,         \* the aggregated list of extract_text_spans
    returned,      \* the list the call returned
    raised,        \* the exception the call raised, with its cause
    warnings,      \* page numbers for which a warning was logged
    page,          \* argument of a direct _extract_page_spans call
    page_no,       \* its page_num argument
    page_spans,    \* its result
    candidates,    \* argument of a direct _filter_spans call
    filtered,      \* its result
    refiltered,    \* the result of filtering the result again
    color,         \* argument of _parse_color
    color_str,     \* its result
    font,          \* font name given to _parse_font_info
    flags,         \* flags given to _parse_font_info
    font_info      \* its result

vars == <<pc, pdf, handle, page_num, spans, returned, raised, warnings,
          page, page_no, page_spans, candidates, filtered, refiltered,
          color, color_str, font, flags, font_info>>

docVars == <<pdf, handle, page_num, spans, returned, raised, warnings>>
pageVars == <<page, page_no, page_spans>>
filterVars == <<candidates, filtered, refiltered>>
colorVars == <<color, color_str>>
styleVars == <<font, flags, font_info>>

NoError == [type |-> "none", cause |-> "none"]

DocIdle ==
    /\ pdf = MissingFile /\ handle = "none" /\ page_num = 0 /\ spans = <<>>
    /\ returned = <<>> /\ raised = NoError /\ warnings = {}
PageIdle == page = UnreadablePage /\ page_no = 0 /\ page_spans = <<>>
FilterIdle == candidates = <<>> /\ filtered = <<>> /\ refiltered = <<>>
ColorIdle == color = 0 /\ color_str = <<>>
StyleIdle == font = <<>> /\ flags = 0 /\ font_info = _parse_font_info(<<>>, 0)

\* ------------------------------------------------------ extract_text_spans
Init ==
    /\ pc = "open"
    /\ pdf \in Files
    /\ handle = "none" /\ page_num = 0 /\ spans = <<>>
    /\ returned = <<>> /\ raised = NoError /\ warnings = {}
    /\ PageIdle /\ FilterIdle /\ ColorIdle /\ StyleIdle

\* fitz.open raises the builtin FileNotFoundError, re-raised by the first
\* except clause
OpenNotFound ==
    /\ pc = "open" /\ pdf.open_error = "FileNotFoundError"
    /\ raised' = [type |-> "FileNotFoundError", cause |-> "none"]
    /\ pc' = "raised"
    /\ UNCHANGED <<pdf, handle, page_num, spans, returned, warnings>>
    /\ UNCHANGED <<pageVars, filterVars, colorVars, styleVars>>

\* fitz.open raises any other exception, wrapped by the second except clause
\* into RuntimeError(f"Failed to extract text from {pdf_path}: {e}")
OpenFailed ==
    /\ pc = "open" /\ pdf.open_error \notin {"none", "FileNotFoundError"}
    /\ raised' = [type |-> "RuntimeError", cause |-> pdf.open_error]
    /\ pc' = "raised"
    /\ UNCHANGED <<pdf, handle, page_num, spans, returned, warnings>>
    /\ UNCHANGED <<pageVars, filterVars, colorVars, styleVars>>

\* with fitz.open(pdf_path) as doc: spans = []
OpenOk ==
    /\ pc = "open" /\ pdf.open_error = "none"
    /\ handle' = "open"
    /\ spans' = <<>>
    /\ pc' = "pages"
    /\ UNCHANGED <<pdf, page_num, returned, raised, warnings>>
    /\ UNCHANGED <<pageVars, filterVars, colorVars, styleVars>>

\* ProcessPage with the page's spans put in front of the aggregate
ProcessPage_prepend ==
    /\ pc = "pages" /\ page_num < Len(pdf.pages) /\ pdf.pages[page_num + 1].loads
    /\ LET n == page_num + 1
           walk == PageWalk(pdf.pages[n].page, n)
       IN  /\ spans' = _extract_page_spans(pdf.pages[n].page, n) \o spans
           /\ warnings' = IF walk.raised THEN warnings \cup {n} ELSE warnings
           /\ page_num' = n
    /\ UNCHANGED <<pc, pdf, handle, returned, raised>>
    /\ UNCHANGED <<pageVars, filterVars, colorVars, styleVars>>

\* one iteration of "for page_num, page in enumerate(doc, 1)"
ProcessPage ==
    /\ pc = "pages" /\ page_num < Len(pdf.pages) /\ pdf.pages[page_num + 1].loads
    /\ LET n == page_num + 1
           walk == PageWalk(pdf.pages[n].page, n)
       IN  /\ spans' = spans \o _extract_page_spans(pdf.pages[n].page, n)
           /\ warnings' = IF walk.raised THEN warnings \cup {n} ELSE warnings
           /\ page_num' = n
    /\ UNCHANGED <<pc, pdf, handle, returned, raised>>
    /\ UNCHANGED <<pageVars, filterVars, colorVars, styleVars>>

\* PageLoadError without the with block: the document stays open
PageLoadError_leak ==
    /\ pc = "pages" /\ page_num < Len(pdf.pages) /\ ~pdf.pages[page_num + 1].loads
    /\ raised' = [type |-> "RuntimeError", cause |-> "load_page"]
    /\ pc' = "raised"
    /\ UNCHANGED <<pdf, handle, page_num, spans, returned, warnings>>
    /\ UNCHANGED <<pageVars, filterVars, colorVars, styleVars>>

\* the iterator raises while loading the next page: the exception leaves the
\* with block, which closes the document, and the second except clause wraps it
PageLoadError ==
    /\ pc = "pages" /\ page_num < Len(pdf.pages) /\ ~pdf.pages[page_num + 1].loads
    /\ handle' = "closed"
    /\ raised' = [type |-> "RuntimeError", cause |-> "load_page"]
    /\ pc' = "raised"
    /\ UNCHANGED <<pdf, page_num, spans, returned, warnings>>
    /\ UNCHANGED <<pageVars, filterVars, colorVars, styleVars>>

\* after the loop: filter, return from inside the with block
Finish ==
    /\ pc = "pages" /\ page_num = Len(pdf.pages)
    /\ returned' = _filter_spans(spans)
    /\ handle' = "closed"
    /\ pc' = "returned"
    /\ UNCHANGED <<pdf, page_num, spans, raised, warnings>>
    /\ UNCHANGED <<pageVars, filterVars, colorVars, styleVars>>

Next ==
    \/ OpenNotFound
    \/ OpenFailed
    \/ OpenOk
    \/ ProcessPage
    \/ PageLoadError
    \/ Finish

Spec == Init /\ [][Next]_vars

\* ------------------------------------------------- the page as specified
\* The walk of a page seen as a flat sequence of events in block, line, run
\* order: a run, or a point where enumerating the structure fails.
RECURSIVE Concat(_)
Concat(ss) == IF ss = <<>> THEN <<>> ELSE Head(ss) \o Concat(Tail(ss))

RunEvent(span) == [kind |-> "run", span |-> span]
FailEvent == [kind |-> "fail", span |-> RunBlank]

LineEvents(line) ==
    IF ~line.has_spans THEN <<FailEvent>>
    ELSE [i \in 1..Len(line.spans) |-> RunEvent(line.spans[i])]
BlockEvents(block) ==
    IF ~block.has_lines THEN <<>>
    ELSE Concat([i \in 1..Len(block.lines) |-> LineEvents(block.lines[i])])
PageEvents(p) ==
    IF ~p.readable THEN <<FailEvent>>
    ELSE Concat([i \in 1..Len(p.blocks) |-> BlockEvents(p.blocks[i])])

\* the run has text left after trimming
HasText(span) == \E i \in 1..Len(span.text) : span.text[i] \notin SpaceChars
\* the run violates a SpanRecord invariant on page n
IsInvalidSpan(span, n) == n < 1 \/ span.size <= 0 \/ Len(span.bbox) # 4
\* the record of a valid run on page n
SpanRecord(span, n) ==
    LET style == _parse_font_info(span.font, span.flags)
    IN  SpanInfo(strip(span.text), span.bbox, span.size, n, span.font,
                 style.is_bold, style.is_italic, _parse_color(span.color))

\* the event is a run that yields a record on page n
Yields(e, n) == e.kind = "run" /\ HasText(e.span) /\ ~IsInvalidSpan(e.span, n)
\* the event is a run whose record construction fails on page n
IsInvalidRun(e, n) == e.kind = "run" /\ HasText(e.span) /\ IsInvalidSpan(e.span, n)
\* the enumeration of the page's structure fails somewhere
WalkFails(p) == \E k \in 1..Len(PageEvents(p)) : PageEvents(p)[k].kind = "fail"
\* the events of a page that come before its first structural failure
RECURSIVE UntilFail(_)
UntilFail(ev) ==
    IF ev = <<>> \/ Head(ev).kind = "fail" THEN <<>>
    ELSE <<Head(ev)>> \o UntilFail(Tail(ev))

\* the four acceptance tests of SpanFilter, sizes in tenths of a point
AlnumTimes10(text) == 10 * Cardinality({i \in 1..Len(text) : isalnum(text[i])})
Keeps(r) ==
    /\ 60 <= r.size /\ r.size <= 720
    /\ Len(r.text) >= 2
    /\ (Len(r.text) < 3 \/ AlnumTimes10(r.text) >= 3 * Len(r.text))
    /\ r.bbox[3] > r.bbox[1] /\ r.bbox[4] > r.bbox[2]
    /\ \A k \in 1..4 : 0 <= r.bbox[k] /\ r.bbox[k] <= 10000

RECURSIVE IsSubseq(_, _)
\* a is b with some elements left out
IsSubseq(a, b) ==
    IF a = <<>> THEN TRUE
    ELSE IF b = <<>> THEN FALSE
    ELSE IF Head(a) = Head(b) THEN IsSubseq(Tail(a), Tail(b))
    ELSE IsSubseq(a, Tail(b))

Ended == pc \in {"returned", "raised"}
Opens == pdf.open_error = "none"
AllPagesLoad == \A n \in 1..Len(pdf.pages) : pdf.pages[n].loads

\* ------------------------------------------------------------ claims, Spec
\* C1: for a document that opens and a page p whose structural walk fails,
\* the call returns normally and the result holds every record of every
\* other page that passes the filter, pages after p included.
C1_PageFailureIsolated ==
    (Ended /\ Opens /\ AllPagesLoad)
        => \A p \in 1..Len(pdf.pages) :
               WalkFails(pdf.pages[p].page)
                   => /\ pc = "returned"
                      /\ \A q \in (1..Len(pdf.pages)) \ {p} :
                             LET ev == UntilFail(PageEvents(pdf.pages[q].page))
                             IN  \A k \in 1..Len(ev) :
                                     (Yields(ev[k], q) /\ Keeps(SpanRecord(ev[k].span, q)))
                                         => \E i \in 1..Len(returned) :
                                                returned[i] = SpanRecord(ev[k].span, q)

\* C4: a path that names no file is reported as FileNotFoundError and only
\* such a path is; a file that does not parse is reported as RuntimeError
\* carrying the cause.
C4_OpenFailuresDistinguished ==
    Ended =>
        /\ (~pdf.exists) => raised.type = "FileNotFoundError"
        /\ (pdf.exists /\ ~pdf.parses)
               => (raised.type = "RuntimeError" /\ raised.cause = pdf.open_error)
        /\ raised.type = "FileNotFoundError" => ~pdf.exists

\* C5: once the document has been opened, the handle is closed when the call
\* ends, whether it returns or raises.
C5_HandleReleased ==
    /\ (Ended /\ Opens) => handle = "closed"
    /\ Ended => handle # "open"

C5_Witness ==
    /\ pc = "raised" /\ Opens /\ handle = "closed" /\ page_num >= 1
    /\ warnings # {}

\* C6: the returned sequence is page-ascending with page numbers from 1, is a
\* subsequence of the aggregated candidates, and follows the block, line,
\* run order of each page.
C6_OrderPreserved ==
    pc = "returned" =>
        /\ \A i \in 1..Len(returned) : returned[i].page \in 1..Len(pdf.pages)
        /\ \A i, j \in 1..Len(returned) : i < j => returned[i].page <= returned[j].page
        /\ IsSubseq(returned, spans)
        /\ \A n \in 1..Len(pdf.pages) :
               LET ev == PageEvents(pdf.pages[n].page)
                   runs == SelectSeq(ev, LAMBDA e : e.kind = "run")
                   all == [k \in 1..Len(runs) |-> SpanRecord(runs[k].span, n)]
               IN  IsSubseq(SelectSeq(returned, LAMBDA r : r.page = n), all)

C6_Witness ==
    /\ pc = "returned"
    /\ Len(returned) < Len(spans)
    /\ \E i \in 1..(Len(returned) - 2) :
           /\ returned[i].page = returned[i + 1].page
           /\ returned[i] # returned[i + 1]
           /\ returned[i + 1].page < returned[i + 2].page

\* ------------------------------------------- _extract_page_spans, directly
\* The text dictionary of a page is written out piece by piece: a piece is a
\* span, the start of a new line, a line without spans, the start of a new
\* text block, or an image block.  Every page of up to MaxTokens pieces.
PageRuns == {RunIntro, RunHi, RunZero, RunBlank}
Tokens ==
    [kind : {"span"}, span : PageRuns]
        \cup [kind : {"line", "badline", "block", "image"}, span : {RunBlank}]

\* append a line to the last text block, opening one when there is none
AddLine(blocks, line) ==
    LET nb == Len(blocks)
    IN  IF nb = 0 \/ ~blocks[nb].has_lines
        THEN Append(blocks, TextBlock(<<line>>))
        ELSE [blocks EXCEPT ![nb].lines = Append(@, line)]

\* append a span to the last line, opening one when there is none
AddSpan(blocks, span) ==
    LET nb == Len(blocks)
    IN  IF nb = 0 \/ ~blocks[nb].has_lines
        THEN AddLine(blocks, Line(<<span>>))
        ELSE LET nl == Len(blocks[nb].lines)
             IN  IF nl = 0 \/ ~blocks[nb].lines[nl].has_spans
                 THEN AddLine(blocks, Line(<<span>>))
                 ELSE [blocks EXCEPT ![nb].lines[nl].spans = Append(@, span)]

RECURSIVE BuildBlocks(_, _)
BuildBlocks(tokens, blocks) ==
    IF tokens = <<>> THEN blocks
    ELSE LET t == Head(tokens)
             next == CASE t.kind = "span" -> AddSpan(blocks, t.span)
                       [] t.kind = "line" -> AddLine(blocks, Line(<<>>))
                       [] t.kind = "badline" -> AddLine(blocks, BadLine)
                       [] t.kind = "block" -> Append(blocks, TextBlock(<<>>))
                       [] t.kind = "image" -> Append(blocks, ImageBlock)
         IN  BuildBlocks(Tail(tokens), next)

Pages ==
    {Page(BuildBlocks(t, <<>>)) : t \in SeqsUpTo(Tokens, MaxTokens)} \cup {UnreadablePage}
PageNumbers == {0, 1}

InitPage ==
    /\ pc = "call"
    /\ page \in Pages /\ page_no \in PageNumbers /\ page_spans = <<>>
    /\ pdf = MissingFile /\ handle = "none" /\ page_num = 0 /\ spans = <<>>
    /\ returned = <<>> /\ raised = NoError /\ warnings = {}
    /\ FilterIdle /\ ColorIdle /\ StyleIdle

\* self._extract_page_spans(page, page_num)
ExtractPage ==
    /\ pc = "call"
    /\ page_spans' = _extract_page_spans(page, page_no)
    /\ warnings' = IF PageWalk(page, page_no).raised THEN {page_no} ELSE {}
    /\ pc' = "ret"
    /\ UNCHANGED <<pdf, handle, page_num, spans, returned, raised, page, page_no>>
    /\ UNCHANGED <<filterVars, colorVars, styleVars>>

NextPage == ExtractPage

SpecPage == InitPage /\ [][NextPage]_vars

\* C2: a run whose SpanRecord construction fails is skipped alone; every
\* other run of the page that is itself valid, before or after it, yields
\* its record.
C2_InvalidSpanSkippedAlone ==
    LET ev == UntilFail(PageEvents(page))
    IN  (pc = "ret" /\ \E f \in 1..Len(ev) : IsInvalidRun(ev[f], page_no))
            => \A k \in 1..Len(ev) :
                   Yields(ev[k], page_no)
                       => \E i \in 1..Len(page_spans) :
                              page_spans[i] = SpanRecord(ev[k].span, page_no)

\* the first event at which the walk stops: a structural failure or a run
\* whose record construction fails; one past the end when there is none
FirstFailure(ev, n) ==
    LET bad == {k \in 1..Len(ev) : ev[k].kind = "fail" \/ IsInvalidRun(ev[k], n)}
    IN  IF bad = {} THEN Len(ev) + 1 ELSE CHOOSE k \in bad : \A j \in bad : k <= j

\* the records built before the walk stops, in extraction order
BuiltBefore(ev, n) ==
    LET runs == SelectSeq(SubSeq(ev, 1, FirstFailure(ev, n) - 1), LAMBDA e : HasText(e.span))
    IN  [k \in 1..Len(runs) |-> SpanRecord(runs[k].span, n)]

\* C3: when the walk of a page fails part-way, the page extraction returns
\* exactly the records built before the failure, in extraction order, and
\* returns normally.
C3_PartialRecordsKept ==
    pc = "ret" =>
        LET ev == PageEvents(page)
        IN  /\ page_spans = BuiltBefore(ev, page_no)
            /\ (warnings # {}) <=> (FirstFailure(ev, page_no) <= Len(ev))

C3_Witness ==
    LET ev == PageEvents(page)
        f == FirstFailure(ev, page_no)
    IN  /\ pc = "ret" /\ warnings # {}
        /\ Len(page_spans) >= 2
        /\ page_spans[1] # page_spans[2]
        /\ f < Len(ev)
        /\ ev[f].kind = "fail"

\* ------------------------------------------------- _filter_spans, directly
Record(text, bbox, size) == SpanInfo(text, bbox, size, 1, Helvetica, FALSE, FALSE, Black)

FilterSizes == {59, 60, 140, 720, 721}
FilterTexts ==
    { <<"a">>, <<"!","!">>, <<"a","!","!">>, <<"a","!","!","!">>, Bangs,
      <<"a","b","c","!","!","!","!","!","!","!">> }
FilterBoxes ==
    { <<0, 0, 100, 20>>, <<5, 5, 5, 10>>, <<5, 5, -1, 10>>, <<5, 10, 20, 10>>,
      <<0, 0, 10000, 10000>>, <<0, 0, 10001, 20>> }
FilterRecords == {Record(t, b, s) : t \in FilterTexts, b \in FilterBoxes, s \in FilterSizes}

\* the records longer inputs are made of: two kept, three rejected
FilterCore ==
    { Record(<<"!","!">>, <<0, 0, 100, 20>>, 60),
      Record(Introduction, <<10, 10, 100, 25>>, 140),
      Record(Introduction, <<10, 10, 100, 25>>, 59),
      Record(Bangs, <<0, 0, 100, 20>>, 120),
      Record(Introduction, <<5, 5, 5, 10>>, 140) }

InitFilter ==
    /\ pc = "call"
    /\ candidates \in SeqsUpTo(FilterCore, MaxFilterLen) \cup {<<r>> : r \in FilterRecords}
    /\ filtered = <<>> /\ refiltered = <<>>
    /\ DocIdle /\ PageIdle /\ ColorIdle /\ StyleIdle

\* self._filter_spans(spans)
FilterCall ==
    /\ pc = "call"
    /\ filtered' = _filter_spans(candidates)
    /\ pc' = "filtered"
    /\ UNCHANGED <<candidates, refiltered, docVars, pageVars, colorVars, styleVars>>

\* self._filter_spans applied to its own result
FilterAgain ==
    /\ pc = "filtered"
    /\ refiltered' = _filter_spans(filtered)
    /\ pc' = "ret"
    /\ UNCHANGED <<candidates, filtered, docVars, pageVars, colorVars, styleVars>>

NextFilter == FilterCall \/ FilterAgain

SpecFilter == InitFilter /\ [][NextFilter]_vars

\* C7: a record is kept exactly when its size is within [6.0, 72.0], its
\* text has at least 2 characters, its text is shorter than 3 or at least
\* 0.3 alphanumeric, and its bbox has positive extent within [0, 10000];
\* with the examples of the specification.
C7_KeepsExactly ==
    pc # "call" =>
        /\ filtered = SelectSeq(candidates, Keeps)
        /\ \A i \in 1..Len(candidates) :
               LET r == candidates[i]
                   kept == \E j \in 1..Len(filtered) : filtered[j] = r
               IN  /\ r.size = 59 => ~kept
                   /\ r = Record(<<"!","!">>, <<0, 0, 100, 20>>, 60) => kept
                   /\ r.text = Bangs => ~kept
                   /\ r.bbox \in {<<5, 5, 5, 10>>, <<5, 5, -1, 10>>} => ~kept

C7_Witness ==
    /\ pc = "filtered"
    /\ candidates = <<Record(<<"!","!">>, <<0, 0, 100, 20>>, 60)>>
    /\ filtered = candidates

\* C8: filtering a filtered sequence gives the same sequence.
C8_FilterIdempotent == pc = "ret" => refiltered = filtered

C8_Witness ==
    /\ pc = "ret"
    /\ Len(filtered) >= 1 /\ Len(filtered) + 2 <= Len(candidates)
    /\ refiltered = filtered

\* ---------------------------------------------------- _parse_color, directly
Colors ==
    (-ColorSpan..ColorSpan) \cup {16711840, 16777215}
        \cup {16777216 + k : k \in 0..ColorSpan}

InitColor ==
    /\ pc = "call"
    /\ color \in Colors /\ color_str = <<>>
    /\ DocIdle /\ PageIdle /\ FilterIdle /\ StyleIdle

\* self._parse_color(span)
ParseColor ==
    /\ pc = "call"
    /\ color_str' = _parse_color(color)
    /\ pc' = "ret"
    /\ UNCHANGED <<color, docVars, pageVars, filterVars, styleVars>>

NextColor == ParseColor

SpecColor == InitColor /\ [][NextColor]_vars

\* the six hexadecimal digits of the low 24 bits of an integer
Pow16(k) == IF k = 0 THEN 1 ELSE IF k = 1 THEN 16 ELSE IF k = 2 THEN 256
            ELSE IF k = 3 THEN 4096 ELSE IF k = 4 THEN 65536 ELSE 1048576
Low24Hex(n) == [i \in 1..6 |-> HexChars[(((n % 16777216) \div Pow16(6 - i)) % 16) + 1]]

\* C9: decode(0) is "black"; every other integer, values above 0xFFFFFF and
\* negative values included, decodes to "#" and the six lowercase hex digits
\* of its low 24 bits.
C9_ColorLow24Bits ==
    pc = "ret" =>
        /\ color = 0 => color_str = Black
        /\ color # 0 => color_str = <<"#">> \o Low24Hex(color)
        /\ color = 16711840 => color_str = <<"#","f","f","0","0","a","0">>

\* ----------------------------------------------- _parse_font_info, directly
FontNames ==
    { <<>>, Helvetica, ArialBoldItalic,
      <<"T","i","m","e","s","-","B","o","l","d">>,
      <<"T","I","M","E","S","-","I","T","A","L","I","C">>,
      <<"s","e","m","i","b","o","l","d">>,
      <<"b","o","l">>,
      <<"O","b","l","i","q","u","e">> }

InitStyle ==
    /\ pc = "call"
    /\ font \in FontNames /\ flags \in (-FlagSpan)..FlagSpan
    /\ font_info = _parse_font_info(<<>>, 0)
    /\ DocIdle /\ PageIdle /\ FilterIdle /\ ColorIdle

\* self._parse_font_info(span)
ParseFontInfo ==
    /\ pc = "call"
    /\ font_info' = _parse_font_info(font, flags)
    /\ pc' = "ret"
    /\ UNCHANGED <<font, flags, docVars, pageVars, filterVars, colorVars>>

NextStyle == ParseFontInfo

SpecStyle == InitStyle /\ [][NextStyle]_vars

\* the name holds the word at some position, in any mix of cases
HoldsWord(name, word, WORD) ==
    \E i \in 0..(Len(name) - Len(word)) :
        \A k \in 1..Len(word) : name[i + k] \in {word[k], WORD[k]}

\* C10: is_bold is true exactly when bit 16 of flags is set or the font name
\* holds "bold" in any case, is_italic exactly when bit 2 is set or the name
\* holds "italic" in any case, each computed on its own.
C10_StyleClassified ==
    pc = "ret" =>
        /\ font_info.is_bold <=>
               (flags % 32 >= 16
                \/ HoldsWord(font, <<"b","o","l","d">>, <<"B","O","L","D">>))
        /\ font_info.is_italic <=>
               (flags % 4 >= 2
                \/ HoldsWord(font, <<"i","t","a","l","i","c">>, <<"I","T","A","L","I","C">>))
        /\ flags = 18 => (font_info.is_bold /\ font_info.is_italic)
        /\ (font = ArialBoldItalic /\ flags = 0)
               => (font_info.is_bold /\ font_info.is_italic)

C10_Witness ==
    /\ pc = "ret" /\ font = ArialBoldItalic /\ flags = 0
    /\ font_info.is_bold /\ font_info.is_italic

====
